---------------------------- MODULE Spec2Model ----------------------------
(***************************************************************************)
(* A model of the knowledge-graph construction engine of                   *)
(* research_knowledge_graph: label normalisation (ValidationAgent), the    *)
(* ingestion pipeline (IngestionService.ingest_paper over GraphRepository) *)
(* and the cross-paper linking passes (GraphService over                   *)
(* RelationshipLinkingAgent).                                              *)
(*                                                                         *)
(* Strings are sequences of characters; a character is a one-element name. *)
(* Beside the ASCII letters, a digit, the space and the tab, the alphabet  *)
(* holds                                                                   *)
(*   "SOH"   U+0001, a control character that sanitize_string removes,     *)
(*   "US"    U+001F, a control character that str.split() treats as        *)
(*           whitespace and that sanitize_string removes first,            *)
(*   "APOSN" U+0149 (LATIN SMALL LETTER N PRECEDED BY APOSTROPHE), a       *)
(*           lowercase letter whose title- and uppercase form is the two   *)
(*           characters U+02BC U+004E,                                     *)
(*   "APOS"  U+02BC (MODIFIER LETTER APOSTROPHE), an uncased character.    *)
(***************************************************************************)
EXTENDS Integers, Sequences, FiniteSets, TLC

VARIABLES
    normIn,     \* SpecNorm: the label handed to _normalize_label
    normOuts,   \* SpecNorm: <<normalize(x), normalize(normalize(x))>> so far
    db,         \* the graph store: the nodes, papers and edges tables
    runs,       \* the ingest_paper calls: each call's locals and position
    ingested,   \* the documents handed to ingest_paper so far, in order
    link        \* the cross-paper linking pass: its locals and position

vars == <<normIn, normOuts, db, runs, ingested, link>>

-----------------------------------------------------------------------------
(* Characters and Python's str case mappings                               *)

LowerLetters ==
    <<"a","b","c","d","e","f","g","h","i","j","k","l","m",
      "n","o","p","q","r","s","t","u","v","w","x","y","z">>

UpperLetters ==
    <<"A","B","C","D","E","F","G","H","I","J","K","L","M",
      "N","O","P","Q","R","S","T","U","V","W","X","Y","Z">>

IsLowerLetter(c) == \E i \in 1..Len(LowerLetters) : LowerLetters[i] = c

IsUpperLetter(c) == \E i \in 1..Len(UpperLetters) : UpperLetters[i] = c

LetterIndex(c, letters) == CHOOSE i \in 1..Len(letters) : letters[i] = c

\* str.islower() of one character: the ASCII lowercase letters and U+0149.
IsLowerChar(c) == IsLowerLetter(c) \/ c = "APOSN"

\* str.isupper() of one character.
IsUpperChar(c) == IsUpperLetter(c)

\* str.lower() of one character.
ToLower(c) == IF IsUpperLetter(c) THEN LowerLetters[LetterIndex(c, UpperLetters)] ELSE c

\* The full title-case mapping of one character (a string: U+0149 maps to two).
ToTitle(c) ==
    IF IsLowerLetter(c) THEN <<UpperLetters[LetterIndex(c, LowerLetters)]>>
    ELSE IF c = "APOSN" THEN <<"APOS", "N">>
    ELSE <<c>>

\* str.upper() of one character (a string: U+0149 maps to two).
ToUpper(c) ==
    IF IsLowerLetter(c) THEN <<UpperLetters[LetterIndex(c, LowerLetters)]>>
    ELSE IF c = "APOSN" THEN <<"APOS", "N">>
    ELSE <<c>>

\* The characters matched by [\x00-\x08\x0B-\x0C\x0E-\x1F] that the model holds.
ControlChars == {"SOH", "US"}

\* The characters str.split() and str.strip() treat as whitespace.
WhitespaceChars == {" ", "\t", "US"}

-----------------------------------------------------------------------------
(* utils/text_sanitizer.py and the str methods _normalize_label calls       *)

IsNotControl(c) == c \notin ControlChars

sanitize_string(text) == SelectSeq(text, IsNotControl)

RECURSIVE lstrip(_)
lstrip(s) ==
    IF s # <<>> /\ Head(s) \in WhitespaceChars THEN lstrip(Tail(s)) ELSE s

RECURSIVE rstrip(_)
rstrip(s) ==
    IF s # <<>> /\ s[Len(s)] \in WhitespaceChars
    THEN rstrip(SubSeq(s, 1, Len(s) - 1))
    ELSE s

strip(s) == rstrip(lstrip(s))

\* str.split(): the maximal runs of non-whitespace characters, in order.
RECURSIVE SplitIter(_, _, _)
SplitIter(s, cur, acc) ==
    IF s = <<>> THEN (IF cur = <<>> THEN acc ELSE Append(acc, cur))
    ELSE IF Head(s) \in WhitespaceChars
         THEN SplitIter(Tail(s), <<>>, IF cur = <<>> THEN acc ELSE Append(acc, cur))
         ELSE SplitIter(Tail(s), Append(cur, Head(s)), acc)

split(s) == SplitIter(s, <<>>, <<>>)

\* " ".join(words)
RECURSIVE join(_)
join(words) ==
    IF words = <<>> THEN <<>>
    ELSE IF Len(words) = 1 THEN words[1]
    ELSE words[1] \o <<" ">> \o join(Tail(words))

\* str.lower()
lower(s) == [i \in 1..Len(s) |-> ToLower(s[i])]

\* str.isupper(): there is a cased character and no cased character is lowercase.
isupper(word) ==
    /\ \E i \in 1..Len(word) : IsUpperChar(word[i])
    /\ \A i \in 1..Len(word) : ~IsLowerChar(word[i])

\* str.capitalize(): the first character title-cased, the rest lowercased.
capitalize(word) ==
    IF word = <<>> THEN <<>> ELSE ToTitle(Head(word)) \o lower(Tail(word))

-----------------------------------------------------------------------------
(* agents/validation_agent.py                                               *)

\* The loop body without its acronym branch (every word capitalised).
NormalizeWord_NoAcronym(word) == capitalize(word)

\* The body of the loop over words, lines 112-117.
NormalizeWord(word) ==
    IF isupper(word) /\ Len(word) > 1 THEN word ELSE capitalize(word)

normalize_label(label) ==
    LET sanitized == sanitize_string(label)
        stripped  == strip(sanitized)
        collapsed == join(split(stripped))
        words     == split(collapsed)
    IN  join([i \in 1..Len(words) |-> NormalizeWord(words[i])])


-----------------------------------------------------------------------------
(* db/repository.py: the store.  A node's id is its index in db.nodes (a    *)
(* fresh uuid4 per Node object); confidences are in hundredths.            *)

EmptyDb == [nodes |-> <<>>, papers |-> {}, edges |-> <<>>]

NoLink == [pc |-> "idle"]

\* The upsert keyed on a (type, label) pair instead of the node's own id.
create_node_supabase_ByLabel(d, node) ==
    IF \E i \in 1..Len(d.nodes) :
           d.nodes[i].node_type = node.node_type /\ d.nodes[i].label = node.label
    THEN d
    ELSE [d EXCEPT !.nodes = Append(@, node)]

\* GraphRepository.create_node_supabase: an upsert on the node's own id, which
\* is new, so a row is always inserted.  The id returned is Len of the result.
create_node_supabase(d, node) == [d EXCEPT !.nodes = Append(@, node)]


\* A lookup that never finds the node.
find_node_by_label_Never(d, label, node_type) == {}

\* GraphRepository.find_node_by_label: label = %s AND node_type = %s LIMIT 1.
\* The rows that match; LIMIT 1 without ORDER BY returns any one of them.
find_node_by_label(d, label, node_type) ==
    {i \in 1..Len(d.nodes) :
        d.nodes[i].label = label /\ d.nodes[i].node_type = node_type}

\* GraphRepository.create_edge: a failed INSERT is swallowed by the bare except.
create_edge(d, edge, ok) ==
    IF ok THEN [d EXCEPT !.edges = Append(@, edge)] ELSE d

\* GraphRepository.create_paper: upsert of the papers row keyed by node_id.
create_paper(d, node_id, year) ==
    [d EXCEPT !.papers = {p \in @ : p.node_id # node_id} \cup
                         {[node_id |-> node_id, year |-> year]}]

\* GraphRepository.update_node_embedding
update_node_embedding(d, node_id, embedding) ==
    [d EXCEPT !.nodes[node_id].embedding = embedding]

-----------------------------------------------------------------------------
(* agents/entity_extraction_agent.py and agents/validation_agent.py: from   *)
(* the oracle's JSON to the validated extraction                            *)

\* dict.get(key, default) on a JSON object, a function on its keys
Get(obj, key, default) == IF key \in DOMAIN obj THEN obj[key] ELSE default

EmptyExtraction ==
    [concepts |-> <<>>, methods |-> <<>>, datasets |-> <<>>, metrics |-> <<>>,
     authors |-> <<>>, tasks |-> <<>>, relationships |-> <<>>]

\* graph/models.py ExtractedEntity(**item): entity_type and label are required.
ValidEntityItem(item) == "entity_type" \in DOMAIN item /\ "label" \in DOMAIN item

\* graph/models.py ExtractedRelationship(**item): the three strings are
\* required and confidence, 1.0 when absent, must lie in [0, 1].
ValidRelationshipItem(item) ==
    /\ {"from_entity_label", "to_entity_label", "relationship_type"} \subseteq DOMAIN item
    /\ Get(item, "confidence", 100) \in 0..100

ParseRelationship(item) ==
    [from_entity_label |-> item.from_entity_label,
     to_entity_label   |-> item.to_entity_label,
     relationship_type |-> item.relationship_type,
     confidence        |-> Get(item, "confidence", 100)]

\* EntityExtractionAgent._parse_extraction_result: one invalid item raises, and
\* the except returns an empty EntityExtractionResult.
parse_extraction_result(result_json) ==
    LET lists == <<"concepts", "methods", "datasets", "metrics", "authors", "tasks">>
        items(k) == Get(result_json, k, <<>>)
        rels == Get(result_json, "relationships", <<>>)
    IN  IF /\ \A n \in 1..Len(lists) : \A i \in 1..Len(items(lists[n])) :
                  ValidEntityItem(items(lists[n])[i])
           /\ \A i \in 1..Len(rels) : ValidRelationshipItem(rels[i])
        THEN [concepts |-> items("concepts"), methods |-> items("methods"),
              datasets |-> items("datasets"), metrics |-> items("metrics"),
              authors |-> items("authors"), tasks |-> items("tasks"),
              relationships |-> [i \in 1..Len(rels) |-> ParseRelationship(rels[i])]]
        ELSE EmptyExtraction

\* A failed oracle call gives a stock extraction of one concept.
extract_entities_StockOnFailure(doc) ==
    IF doc.llm_ok THEN parse_extraction_result(doc.json)
    ELSE [EmptyExtraction EXCEPT
            !.concepts = <<[entity_type |-> "concept", label |-> <<"X">>]>>]

\* EntityExtractionAgent._extract_with_llm with Config.DEBUG off: a failed
\* oracle call gives the empty result.
extract_entities(doc) ==
    IF doc.llm_ok THEN parse_extraction_result(doc.json) ELSE EmptyExtraction

\* utils/text_sanitizer.py sanitize_dict on a dict of strings
sanitize_dict(data) == [k \in DOMAIN data |-> sanitize_string(data[k])]

\* A merge in which the keys already there keep their value.
DictUpdate_KeepExisting(existing, incoming) ==
    [k \in DOMAIN existing \cup DOMAIN incoming |->
        IF k \in DOMAIN existing THEN existing[k] ELSE incoming[k]]

\* dict.update: existing.properties.update(entity.properties), line 77
DictUpdate(existing, incoming) ==
    [k \in DOMAIN existing \cup DOMAIN incoming |->
        IF k \in DOMAIN incoming THEN incoming[k] ELSE existing[k]]

\* ExtractedEntity.description (None and "", both falsy, are <<>>) and
\* ExtractedEntity.properties ({} when absent)
Description(entity) == Get(entity, "description", <<>>)
Properties(entity) == Get(entity, "properties", <<>>)

\* Lines 71-77: a later duplicate merged into the entity first seen
MergeEntity(existing, entity) ==
    [existing EXCEPT
        !.description = IF Description(entity) # <<>> /\ @ = <<>>
                        THEN Description(entity) ELSE @,
        !.properties = DictUpdate(@, Properties(entity))]

\* Lines 79-89: the normalized entity of a label seen for the first time
NewEntity(entity, entity_type, normalized_label) ==
    [entity_type |-> entity_type,
     label       |-> normalized_label,
     description |-> sanitize_string(Description(entity)),
     properties  |-> sanitize_dict(Properties(entity))]

\* The duplicates are recognised by the normalized label itself, not by its
\* lowercase form.
RECURSIVE NormalizeEntitiesIter_ExactKey(_, _, _, _)
NormalizeEntitiesIter_ExactKey(entities, entity_type, seen_labels, normalized) ==
    IF entities = <<>> THEN normalized
    ELSE
        LET entity == Head(entities)
            normalized_label == normalize_label(entity.label)
        IN  IF entity.label = <<>> \/ strip(entity.label) = <<>>
            THEN NormalizeEntitiesIter_ExactKey(Tail(entities), entity_type,
                                                seen_labels, normalized)
            ELSE IF normalized_label \in seen_labels
            THEN LET n == CHOOSE x \in 1..Len(normalized) :
                            normalized[x].label = normalized_label
                 IN  NormalizeEntitiesIter_ExactKey(
                         Tail(entities), entity_type, seen_labels,
                         [normalized EXCEPT ![n] = MergeEntity(@, entity)])
            ELSE NormalizeEntitiesIter_ExactKey(
                     Tail(entities), entity_type, seen_labels \cup {normalized_label},
                     Append(normalized, NewEntity(entity, entity_type, normalized_label)))

\* ValidationAgent._normalize_entities
RECURSIVE NormalizeEntitiesIter(_, _, _, _)
NormalizeEntitiesIter(entities, entity_type, seen_labels, normalized) ==
    IF entities = <<>> THEN normalized
    ELSE
        LET entity == Head(entities)
            normalized_label == normalize_label(entity.label)
            label_key == lower(normalized_label)
        IN  IF entity.label = <<>> \/ strip(entity.label) = <<>>
            THEN NormalizeEntitiesIter(Tail(entities), entity_type, seen_labels, normalized)
            ELSE IF label_key \in seen_labels
            THEN LET n == CHOOSE x \in 1..Len(normalized) :
                            lower(normalized[x].label) = label_key
                 IN  NormalizeEntitiesIter(
                         Tail(entities), entity_type, seen_labels,
                         [normalized EXCEPT ![n] = MergeEntity(@, entity)])
            ELSE NormalizeEntitiesIter(
                     Tail(entities), entity_type, seen_labels \cup {label_key},
                     Append(normalized, NewEntity(entity, entity_type, normalized_label)))

normalize_entities(entities, entity_type) ==
    NormalizeEntitiesIter(entities, entity_type, {}, <<>>)

\* max(0.0, min(1.0, float(rel.confidence))), line 138
Clamp(c) == IF c < 0 THEN 0 ELSE IF c > 100 THEN 100 ELSE c

\* rel.confidence = 0.5 when the object has no such attribute, line 136
MissingConfidence == 50

\* Only the source label is looked at.
RelationshipKept_FromOnly(rel) ==
    /\ "from_entity_label" \in DOMAIN rel /\ rel.from_entity_label # <<>>

\* Lines 127-132: hasattr(rel, field) and the field is not empty, for the
\* three required fields
RelationshipKept(rel) ==
    /\ "from_entity_label" \in DOMAIN rel /\ rel.from_entity_label # <<>>
    /\ "to_entity_label" \in DOMAIN rel /\ rel.to_entity_label # <<>>
    /\ "relationship_type" \in DOMAIN rel /\ rel.relationship_type # ""

\* Lines 135-138: the confidence of a kept relationship
WithConfidence(rel) ==
    [k \in DOMAIN rel \cup {"confidence"} |->
        IF k # "confidence" THEN rel[k]
        ELSE IF "confidence" \in DOMAIN rel THEN Clamp(rel.confidence)
        ELSE MissingConfidence]

\* ValidationAgent._validate_relationships
validate_relationships(relationships) ==
    LET kept == SelectSeq(relationships, RelationshipKept)
    IN  [i \in 1..Len(kept) |-> WithConfidence(kept[i])]

\* ValidationAgent.validate_and_normalize: the result is built without tasks.
validate_and_normalize(extraction_result) ==
    [concepts |-> normalize_entities(extraction_result.concepts, "concept"),
     methods  |-> normalize_entities(extraction_result.methods, "method"),
     datasets |-> normalize_entities(extraction_result.datasets, "dataset"),
     metrics  |-> normalize_entities(extraction_result.metrics, "metric"),
     authors  |-> normalize_entities(extraction_result.authors, "author"),
     tasks    |-> <<>>,
     relationships |-> validate_relationships(extraction_result.relationships)]

-----------------------------------------------------------------------------
(* services/ingestion_service.py: ingest_paper, one store call per step      *)

\* IngestionService._create_paper_node
create_paper_node(doc) ==
    [node_type |-> "paper", label |-> sanitize_string(doc.title),
     properties |-> [year |-> doc.year], embedding |-> 0]

\* Node(node_type=entity.entity_type, label=entity.label, ...), lines 116-123
EntityNode(entity) ==
    [node_type |-> entity.entity_type, label |-> entity.label,
     properties |-> DictUpdate([description |-> entity.description], entity.properties),
     embedding |-> 0]

\* The confidence of a structural edge, line 141: 1.0
StructuralConfidence == 100

\* The edge from the paper to the entity takes its type from the entity type.
IntroducesEdge_Typed(paper_node_id, entity_node_id, entity) ==
    [from_node_id |-> paper_node_id,
     to_node_id   |-> entity_node_id,
     edge_type    |-> CASE entity.entity_type = "dataset" -> "USES_DATASET"
                        [] entity.entity_type = "metric" -> "EVALUATES_WITH"
                        [] OTHER -> "INTRODUCES",
     confidence   |-> StructuralConfidence]

\* Lines 131-143: the edge from the paper to the entity
IntroducesEdge(paper_node_id, entity_node_id, entity) ==
    [from_node_id |-> paper_node_id,
     to_node_id   |-> entity_node_id,
     edge_type    |-> IF entity.entity_type \in {"author", "authors"}
                      THEN "AUTHORED_BY" ELSE "INTRODUCES",
     confidence   |-> StructuralConfidence]

\* Lines 155-164: the edge of an intra-paper relationship
RelationshipEdge(from_id, to_id, rel) ==
    [from_node_id |-> from_id,
     to_node_id   |-> to_id,
     edge_type    |-> rel.relationship_type,
     confidence   |-> rel.confidence]

\* entity_nodes[label] = id
DictSet(dict, key, value) ==
    [k \in DOMAIN dict \cup {key} |-> IF k = key THEN value ELSE dict[k]]

\* A lookup that gives node 1 for a label outside the map.
DictGet_AlwaysFound(dict, key) == IF key \in DOMAIN dict THEN dict[key] ELSE 1

\* entity_nodes.get(label): 0 stands for None
DictGet(dict, key) == IF key \in DOMAIN dict THEN dict[key] ELSE 0

\* PaperIngestionAgent.ingest_from_file raises when the file gave no text;
\* ingest_from_dict goes on with whatever text it has.
ingest_raises(doc) == doc.kind = "file" /\ doc.text = ""

\* Lines 45-63 and 92-103: the document read, extraction, validation and the
\* locals of the call
BeginIngest(doc) ==
    LET validated_result == validate_and_normalize(extract_entities(doc))
    IN  [pc             |-> IF ingest_raises(doc) THEN "failed" ELSE "paper",
         doc            |-> doc.name,
         title          |-> doc.title,
         year           |-> doc.year,
         embedding      |-> doc.embedding,
         all_entities   |-> validated_result.concepts \o validated_result.methods \o
                            validated_result.datasets \o validated_result.metrics \o
                            validated_result.authors \o validated_result.tasks,
         relationships  |-> validated_result.relationships,
         i              |-> 1,
         j              |-> 1,
         paper_node_id  |-> 0,
         existing       |-> 0,
         entity_node_id |-> 0,
         entity_nodes   |-> <<>>,
         edges_created  |-> <<>>,
         steps          |-> 0,
         error          |-> IF ingest_raises(doc) THEN "ingest_from_file" ELSE "none"]

\* Where the call goes once entity i - 1 is done.
AfterEntity(r, i) ==
    IF i <= Len(r.all_entities) THEN "find"
    ELSE IF r.relationships # <<>> THEN "rels" ELSE "done"

\* The lookup returns None whatever the store holds.
RowChoices_None(d, r) == {0}

\* The rows find_node_by_label may return at this step (0: None)
RowChoices(d, r) ==
    IF r.pc = "find"
    THEN LET rows == find_node_by_label(d, r.all_entities[r.i].label,
                                        r.all_entities[r.i].entity_type)
         IN  IF rows = {} THEN {0} ELSE rows
    ELSE {0}

\* One step of ingest_paper.  row: what find_node_by_label returns; ok: the
\* store call of this step succeeds (an exception of create_edge is swallowed
\* in the repository, one of the embedding is caught at line 88, any other
\* leaves ingest_paper).
IngestStep(d, r, row, ok) ==
    LET r1 == [r EXCEPT !.steps = @ + 1]
        failed == [db |-> d, run |-> [r1 EXCEPT !.pc = "failed", !.error = r.pc]]
    IN
    CASE r.pc = "paper" ->        \* line 67
           IF ~ok THEN failed
           ELSE LET d1 == create_node_supabase(d, create_paper_node(r))
                IN  [db |-> d1,
                     run |-> [r1 EXCEPT !.paper_node_id = Len(d1.nodes),
                                        !.pc = "metadata"]]
      [] r.pc = "metadata" ->     \* line 80
           IF ~ok THEN failed
           ELSE [db |-> create_paper(d, r.paper_node_id, r.year),
                 run |-> [r1 EXCEPT !.pc = "embedding"]]
      [] r.pc = "embedding" ->    \* lines 82-89
           [db |-> IF ok /\ r.embedding # 0
                   THEN update_node_embedding(d, r.paper_node_id, r.embedding)
                   ELSE d,
            run |-> [r1 EXCEPT !.pc = AfterEntity(r, 1)]]
      [] r.pc = "find" ->         \* line 108
           IF ~ok THEN failed
           ELSE [db |-> d, run |-> [r1 EXCEPT !.existing = row, !.pc = "create"]]
      [] r.pc = "create" ->       \* lines 110-129
           IF r.existing # 0
           THEN [db |-> d,
                 run |-> [r1 EXCEPT
                            !.entity_node_id = r.existing,
                            !.entity_nodes = DictSet(@, r.all_entities[r.i].label,
                                                     r.existing),
                            !.pc = "introduces"]]
           ELSE IF ~ok THEN failed
           ELSE LET d1 == create_node_supabase(d, EntityNode(r.all_entities[r.i]))
                IN  [db |-> d1,
                     run |-> [r1 EXCEPT
                                !.entity_node_id = Len(d1.nodes),
                                !.entity_nodes = DictSet(@, r.all_entities[r.i].label,
                                                         Len(d1.nodes)),
                                !.pc = "introduces"]]
      [] r.pc = "introduces" ->   \* lines 131-147
           LET edge == IntroducesEdge(r.paper_node_id, r.entity_node_id,
                                      r.all_entities[r.i])
           IN  [db |-> create_edge(d, edge, ok),
                run |-> [r1 EXCEPT !.edges_created = Append(@, edge),
                                   !.i = @ + 1,
                                   !.pc = AfterEntity(r, r.i + 1)]]
      [] r.pc = "rels" ->         \* lines 150-167
           LET rel == r.relationships[r.j]
               from_id == DictGet(r.entity_nodes, rel.from_entity_label)
               to_id == DictGet(r.entity_nodes, rel.to_entity_label)
               next == IF r.j < Len(r.relationships) THEN "rels" ELSE "done"
           IN  IF from_id # 0 /\ to_id # 0
               THEN LET edge == RelationshipEdge(from_id, to_id, rel)
                    IN  [db |-> create_edge(d, edge, ok),
                         run |-> [r1 EXCEPT !.edges_created = Append(@, edge),
                                            !.j = @ + 1, !.pc = next]]
               ELSE [db |-> d, run |-> [r1 EXCEPT !.j = @ + 1, !.pc = next]]

\* ingest_paper run to its return (pc = "done") or to the exception that
\* leaves it (pc = "failed"); fail_at: the step whose store call fails (0: none).
RECURSIVE IngestOutcomes(_, _, _)
IngestOutcomes(d, r, fail_at) ==
    IF r.pc \in {"done", "failed"} THEN {[db |-> d, run |-> r]}
    ELSE UNION {IngestOutcomes(s.db, s.run, fail_at) :
                  s \in {IngestStep(d, r, row, r.steps + 1 # fail_at) :
                           row \in RowChoices(d, r)}}

\* The result dict of ingest_paper, lines 169-174
IngestResult(r) ==
    [paper_node_id    |-> r.paper_node_id,
     entities_created |-> Cardinality(DOMAIN r.entity_nodes),
     edges_created    |-> Len(r.edges_created),
     title            |-> r.title]

-----------------------------------------------------------------------------
(* agents/relationship_linking_agent.py: from the oracle's answer for an    *)
(* ordered pair of papers to the edges of the pair                          *)

\* config.py: DEBUG is off unless the environment sets it.
DEBUG == FALSE

\* The relationship types whose edge runs from paper2 to paper1, lines 145-146
InvertedTypes == {"IMPROVES_ON", "EXTENDS", "REFINES_CONCEPT"}

\* rel_data.get("confidence", 0.5), line 148
DefaultConfidence == 50

\* graph/models.py Edge: confidence must lie in [0, 1] or the constructor raises.
ValidEdgeItem(rel_data) == Get(rel_data, "confidence", DefaultConfidence) \in 0..100

\* The direction of every edge is the one of the oracle's ordered input.
EdgeOfItem_NoInversion(paper1, paper2, rel_data) ==
    [from_node_id |-> paper1,
     to_node_id   |-> paper2,
     edge_type    |-> Get(rel_data, "relationship_type", "SIMILAR_TO"),
     confidence   |-> Get(rel_data, "confidence", DefaultConfidence)]

\* Edge(...), lines 144-153
EdgeOfItem(paper1, paper2, rel_data) ==
    LET inverted == Get(rel_data, "relationship_type", "") \in InvertedTypes
    IN  [from_node_id |-> IF inverted THEN paper2 ELSE paper1,
         to_node_id   |-> IF inverted THEN paper1 ELSE paper2,
         edge_type    |-> Get(rel_data, "relationship_type", "SIMILAR_TO"),
         confidence   |-> Get(rel_data, "confidence", DefaultConfidence)]

\* RelationshipLinkingAgent._get_default_relationships
get_default_relationships(paper1, paper2) ==
    <<[from_node_id |-> paper1, to_node_id |-> paper2,
       edge_type |-> "SIMILAR_TO", confidence |-> 75]>>

\* RelationshipLinkingAgent._infer_with_llm: a failed call, or one item the
\* Edge constructor rejects, ends in the except and gives no relationship.
infer_with_llm(paper1, paper2, answer) ==
    IF DEBUG THEN get_default_relationships(paper1, paper2)
    ELSE IF ~answer.ok THEN <<>>
    ELSE IF \E i \in 1..Len(answer.json) : ~ValidEdgeItem(answer.json[i]) THEN <<>>
    ELSE [i \in 1..Len(answer.json) |-> EdgeOfItem(paper1, paper2, answer.json[i])]

\* RelationshipLinkingAgent._compare_papers
compare_papers(d, paper1, paper2, answer) ==
    IF d.nodes[paper1].label = <<>> \/ d.nodes[paper2].label = <<>> THEN <<>>
    ELSE infer_with_llm(paper1, paper2, answer)

-----------------------------------------------------------------------------
(* db/repository.py: the queries of the linking passes                      *)

\* The sequences that enumerate a finite set once
SeqsOf(S) ==
    {s \in [1..Cardinality(S) -> S] : \A i, j \in DOMAIN s : i # j => s[i] # s[j]}

\* GraphRepository.get_all_papers: ORDER BY year DESC NULLS LAST; rows of the
\* same year come in any order.
get_all_papers(d) ==
    {[i \in DOMAIN s |-> s[i].node_id] :
        s \in {t \in SeqsOf(d.papers) :
                 \A i, j \in DOMAIN t : i < j => t[i].year >= t[j].year}}

\* The targets, of one node type, of the edges that leave the paper
PaperNeighbourIds(d, paper_node_id, node_type) ==
    {d.edges[e].to_node_id :
        e \in {x \in 1..Len(d.edges) :
                 /\ d.edges[x].from_node_id = paper_node_id
                 /\ d.nodes[d.edges[x].to_node_id].node_type = node_type}}

get_paper_dataset_ids(d, paper_node_id) == PaperNeighbourIds(d, paper_node_id, "dataset")
get_paper_method_ids(d, paper_node_id) == PaperNeighbourIds(d, paper_node_id, "method")
get_paper_concept_ids(d, paper_node_id) == PaperNeighbourIds(d, paper_node_id, "concept")

\* n.embedding <-> q.embedding on the line
Distance(d, a, b) ==
    IF d.nodes[a].embedding >= d.nodes[b].embedding
    THEN d.nodes[a].embedding - d.nodes[b].embedding
    ELSE d.nodes[b].embedding - d.nodes[a].embedding

\* GraphRepository.get_similar_papers_for_node: the k nearest other papers with
\* an embedding, nearest first, none when the paper itself has no embedding;
\* papers at the same distance come in any order.
get_similar_papers_for_node(d, paper_node_id, k) ==
    IF d.nodes[paper_node_id].embedding = 0 THEN {<<>>}
    ELSE
      LET rows == {p.node_id : p \in {q \in d.papers :
                      /\ d.nodes[q.node_id].node_type = "paper"
                      /\ q.node_id # paper_node_id
                      /\ d.nodes[q.node_id].embedding # 0}}
          n == IF Cardinality(rows) < k THEN Cardinality(rows) ELSE k
      IN  {[i \in 1..n |-> s[i]] :
             s \in {t \in SeqsOf(rows) :
                      \A i, j \in DOMAIN t : i < j =>
                         Distance(d, paper_node_id, t[i]) <= Distance(d, paper_node_id, t[j])}}

\* GraphService.get_paper_datasets and get_paper_metrics: the edges that
\* leave the paper, of these types, to a node of this type
get_paper_datasets(d, paper_node_id) ==
    {e \in 1..Len(d.edges) :
        /\ d.edges[e].from_node_id = paper_node_id
        /\ d.edges[e].edge_type \in {"USES_DATASET", "EVALUATES_ON"}
        /\ d.nodes[d.edges[e].to_node_id].node_type = "dataset"}

get_paper_metrics(d, paper_node_id) ==
    {e \in 1..Len(d.edges) :
        /\ d.edges[e].from_node_id = paper_node_id
        /\ d.edges[e].edge_type = "EVALUATES_WITH"
        /\ d.nodes[d.edges[e].to_node_id].node_type = "metric"}

-----------------------------------------------------------------------------
(* services/graph_service.py: the three linking passes, one candidate per   *)
(* step.  "unpruned": link_cross_paper_relationships, "pruned":             *)
(* link_cross_paper_relationships_pruned (Strategy B), "pruned_2":          *)
(* link_cross_paper_relationships_pruned_2 (Strategy A).                    *)

\* A key that keeps the order in which the pair was met.
PairKey_Ordered(a, b) == <<a, b>>

\* tuple(sorted([str(src_id), str(dst_id)]))
PairKey(a, b) == IF a <= b THEN <<a, b>> ELSE <<b, a>>

\* Lines 182-197 (and 88-99): the locals of a pass after the preload
BeginPass(d, strategy, k, papers) ==
    LET ids == {papers[i] : i \in DOMAIN papers}
    IN  [pc             |-> "running",
         strategy       |-> strategy,
         k              |-> k,
         papers         |-> papers,
         src            |-> 0,
         cands          |-> <<>>,
         paper_datasets |-> [p \in ids |-> get_paper_dataset_ids(d, p)],
         paper_methods  |-> [p \in ids |-> get_paper_method_ids(d, p)],
         paper_concepts |-> [p \in ids |-> get_paper_concept_ids(d, p)],
         seen_pairs     |-> {},
         calls          |-> <<>>,
         pending        |-> <<>>,
         edges_created  |-> 0]

\* if len(papers) < 2: return 0
EmptyPass(strategy, k, papers) ==
    [pc |-> "returned", strategy |-> strategy, k |-> k, papers |-> papers,
     src |-> 0, cands |-> <<>>, paper_datasets |-> <<>>, paper_methods |-> <<>>,
     paper_concepts |-> <<>>, seen_pairs |-> {}, calls |-> <<>>, pending |-> <<>>,
     edges_created |-> 0]

\* Lines 241-245: paper_datasets | paper_methods | paper_concepts
AllConnectedNodes(l, paper_id) ==
    l.paper_datasets[paper_id] \cup l.paper_methods[paper_id] \cup l.paper_concepts[paper_id]

\* Lines 207-228: node_to_papers[node_id]
NodeToPapers(l, node_id) ==
    {p \in DOMAIN l.paper_datasets : node_id \in AllConnectedNodes(l, p)}

\* The unpruned pass pairs a paper with itself as well.
CandidateLists_FromSelf(d, l, src_id) ==
    CASE l.strategy = "unpruned" ->
           {SubSeq(l.papers, l.src + 1, Len(l.papers))}
      [] l.strategy = "pruned" ->
           IF l.paper_datasets[src_id] = {} THEN {<<>>}
           ELSE get_similar_papers_for_node(d, src_id, l.k)
      [] l.strategy = "pruned_2" ->
           SeqsOf(UNION {NodeToPapers(l, n) : n \in AllConnectedNodes(l, src_id)}
                  \ {src_id})

\* The candidates of a source paper, in the orders the pass can visit them in:
\* the papers after it (unpruned), its nearest neighbours unless it has no
\* dataset (pruned), the papers met through its connected nodes, a Python
\* set, in any order (pruned_2).
CandidateLists(d, l, src_id) ==
    CASE l.strategy = "unpruned" ->
           {SubSeq(l.papers, l.src + 2, Len(l.papers))}
      [] l.strategy = "pruned" ->
           IF l.paper_datasets[src_id] = {} THEN {<<>>}
           ELSE get_similar_papers_for_node(d, src_id, l.k)
      [] l.strategy = "pruned_2" ->
           SeqsOf(UNION {NodeToPapers(l, n) : n \in AllConnectedNodes(l, src_id)}
                  \ {src_id})

\* Strategy B without its dataset filter.
Qualifies_NoDatasetFilter(l, src_id, dst_id) ==
    CASE l.strategy = "unpruned" -> TRUE
      [] l.strategy = "pruned" -> TRUE
      [] l.strategy = "pruned_2" ->
           \/ l.paper_datasets[src_id] \cap l.paper_datasets[dst_id] # {}
           \/ l.paper_methods[src_id] \cap l.paper_methods[dst_id] # {}
           \/ l.paper_concepts[src_id] \cap l.paper_concepts[dst_id] # {}

\* The filter between the seen-set and the oracle call, lines 138-146 and 268-289
Qualifies(l, src_id, dst_id) ==
    CASE l.strategy = "unpruned" -> TRUE
      [] l.strategy = "pruned" ->
           /\ l.paper_datasets[dst_id] # {}
           /\ l.paper_datasets[src_id] \cap l.paper_datasets[dst_id] # {}
      [] l.strategy = "pruned_2" ->
           \/ l.paper_datasets[src_id] \cap l.paper_datasets[dst_id] # {}
           \/ l.paper_methods[src_id] \cap l.paper_methods[dst_id] # {}
           \/ l.paper_concepts[src_id] \cap l.paper_concepts[dst_id] # {}

\* for edge in relationships: create_edge(edge)
RECURSIVE StoreEdges(_, _)
StoreEdges(d, edges) ==
    IF edges = <<>> THEN d
    ELSE StoreEdges(create_edge(d, Head(edges), TRUE), Tail(edges))

\* The entry of a pass: get_all_papers and the preload.
LinkBegin(strategies, ks) ==
    /\ link.pc = "idle"
    /\ \E strategy \in strategies, k \in ks, papers \in get_all_papers(db) :
          link' = IF Len(papers) < 2 THEN EmptyPass(strategy, k, papers)
                  ELSE BeginPass(db, strategy, k, papers)
    /\ UNCHANGED <<normIn, normOuts, db, runs, ingested>>

\* The outer loop takes the next source paper.
LinkNextSource ==
    /\ link.pc = "running"
    /\ link.cands = <<>>
    /\ link.src < Len(link.papers)
    /\ \E cands \in CandidateLists(db, link, link.papers[link.src + 1]) :
          link' = [link EXCEPT !.src = @ + 1, !.cands = cands]
    /\ UNCHANGED <<normIn, normOuts, db, runs, ingested>>

\* The inner loop takes the next candidate: the seen-set, the filter, the
\* oracle call and the writes of its edges.  answers: what the oracle may
\* return.  With no relationship for the pair, "pruned_2" reaches
\* ipdb.set_trace() at line 307: the pass goes on when the debugger is told to
\* continue and ends there otherwise (no debugger installed, no terminal, quit).
LinkVisit(answers) ==
    /\ link.pc = "running"
    /\ link.cands # <<>>
    /\ LET src_id == link.papers[link.src]
           dst_id == Head(link.cands)
           key == PairKey(src_id, dst_id)
           l1 == [link EXCEPT !.cands = Tail(@)]
           l2 == IF link.strategy = "unpruned" THEN l1
                 ELSE [l1 EXCEPT !.seen_pairs = @ \cup {key}]
       IN  IF link.strategy # "unpruned" /\ (dst_id = src_id \/ key \in link.seen_pairs)
           THEN link' = l1 /\ db' = db
           ELSE IF ~Qualifies(link, src_id, dst_id)
           THEN link' = l2 /\ db' = db
           ELSE \E answer \in answers, resumed \in BOOLEAN :
                  LET relationships == compare_papers(db, src_id, dst_id, answer)
                      call == [paper1 |-> src_id, paper2 |-> dst_id,
                               answer |-> answer, relationships |-> relationships]
                      l3 == [l2 EXCEPT !.calls = Append(@, call)]
                  IN  IF link.strategy = "unpruned"
                      THEN /\ link' = [l3 EXCEPT !.pending = @ \o relationships]
                           /\ db' = db
                      ELSE /\ db' = StoreEdges(db, relationships)
                           /\ link' = [l3 EXCEPT
                                 !.edges_created = @ + Len(relationships),
                                 !.pc = IF /\ link.strategy = "pruned_2"
                                           /\ relationships = <<>>
                                           /\ ~resumed
                                        THEN "aborted" ELSE "running"]
    /\ UNCHANGED <<normIn, normOuts, runs, ingested>>

\* The pass returns edges_created; the unpruned pass stores its edges here.
LinkReturn ==
    /\ link.pc = "running"
    /\ link.cands = <<>>
    /\ link.src = Len(link.papers)
    /\ db' = StoreEdges(db, link.pending)
    /\ link' = [link EXCEPT !.pc = "returned",
                            !.edges_created = @ + Len(link.pending)]
    /\ UNCHANGED <<normIn, normOuts, runs, ingested>>

-----------------------------------------------------------------------------
(* Documents: what the ingestion oracle and the extraction oracle return    *)
(* for a paper.  year 0 is NULL, embedding 0 is a failed embedding call.    *)

L_Splatting == <<"S", "p", "l", "a", "t", "t", "i", "n", "g">>
L_DatasetX  == <<"D", "a", "t", "a", "s", "e", "t", "X">>
L_Datasetx  == <<"D", "a", "t", "a", "s", "e", "t", "x">>
L_FastSplat == <<"F", "a", "s", "t", "S", "p", "l", "a", "t">>
L_Fastsplat == <<"F", "a", "s", "t", "s", "p", "l", "a", "t">>
L_PSNR      == <<"P", "S", "N", "R">>
L_psnr      == <<"p", "s", "n", "r">>
L_Psnr      == <<"P", "s", "n", "r">>
L_Unknown   == <<"U", "n", "k", "n", "o", "w", "n">>

Item(entity_type, label) == [entity_type |-> entity_type, label |-> label]

Rel(from, to, relationship_type, confidence) ==
    [from_entity_label |-> from, to_entity_label |-> to,
     relationship_type |-> relationship_type, confidence |-> confidence]

Doc(name, year, embedding, json) ==
    [name |-> name, title |-> <<name>>, year |-> year, embedding |-> embedding,
     llm_ok |-> TRUE, json |-> json, kind |-> "dict", text |-> "text"]

\* The two documents of the end-to-end scenario
Doc_Splat ==
    Doc("S", 2023, 1, [concepts |-> <<Item("concept", L_Splatting)>>,
                       datasets |-> <<Item("dataset", L_DatasetX)>>])
Doc_Fast ==
    Doc("F", 2024, 2,
        [methods  |-> <<Item("method", L_FastSplat)>>,
         datasets |-> <<[entity_type |-> "dataset", label |-> L_DatasetX,
                         description |-> <<"d">>,
                         properties |-> [size |-> <<"1">>]]>>])

\* A relationship list whose second entry names a label outside the map (the
\* raw "DatasetX"; the map holds the normalized "Datasetx") and whose third
\* has no confidence.
Doc_Rels ==
    Doc("R", 2022, 3,
        [concepts |-> <<Item("concept", L_Splatting)>>,
         datasets |-> <<Item("dataset", L_DatasetX)>>,
         relationships |->
           <<Rel(L_Splatting, L_Datasetx, "USES_DATASET", 80),
             Rel(L_Splatting, L_DatasetX, "EVALUATES_ON", 90),
             [from_entity_label |-> L_Datasetx, to_entity_label |-> L_Splatting,
              relationship_type |-> "USED_BY"],
             Rel(L_Unknown, L_Splatting, "USES_METHOD", 70)>>])

\* The same metric in two letter cases
Doc_PSNR ==
    Doc("M", 2021, 4,
        [methods |-> <<Item("method", L_FastSplat)>>,
         metrics |-> <<Item("metric", L_PSNR)>>,
         relationships |-> <<Rel(L_Fastsplat, L_PSNR, "EVALUATES_WITH", 90)>>])
Doc_psnr ==
    Doc("m", 0, 0, [metrics |-> <<Item("metric", L_psnr), Item("metric", L_Psnr)>>])

\* Relationships whose confidence lies outside [0, 1]
Doc_High ==
    Doc("H", 2020, 5,
        [concepts |-> <<Item("concept", L_Splatting)>>,
         datasets |-> <<Item("dataset", L_DatasetX)>>,
         relationships |-> <<Rel(L_Splatting, L_Datasetx, "USES_DATASET", 170)>>])
Doc_Low ==
    Doc("L", 2020, 6,
        [concepts |-> <<Item("concept", L_Splatting)>>,
         datasets |-> <<Item("dataset", L_DatasetX)>>,
         relationships |-> <<Rel(L_Splatting, L_Datasetx, "USES_DATASET", 0 - 20)>>])

\* A failed extraction call
Doc_NoExtraction == [Doc("N", 0, 7, <<>>) EXCEPT !.llm_ok = FALSE]

\* A file without text or an unreadable file (load_text_from_file gives ""),
\* and a JSON document without text, title, abstract or body
Doc_EmptyFile == [Doc("E", 0, 0, <<>>) EXCEPT !.kind = "file", !.text = ""]
Doc_EmptyDict == [Doc("U", 0, 0, <<>>) EXCEPT !.text = ""]

\* An extraction that lists the same relationship twice
Doc_Twice ==
    Doc("T", 2019, 8,
        [concepts |-> <<Item("concept", L_Splatting)>>,
         datasets |-> <<Item("dataset", L_DatasetX)>>,
         relationships |-> <<Rel(L_Splatting, L_DatasetX, "USES_DATASET", 90),
                             Rel(L_Splatting, L_DatasetX, "USES_DATASET", 90)>>])

\* An extraction with a concept and a task
Doc_Task ==
    Doc("K", 2018, 9, [concepts |-> <<Item("concept", L_Splatting)>>,
                       tasks    |-> <<Item("task", L_FastSplat)>>])

\* An extraction with a concept and a method of the same label
Doc_SameLabel ==
    Doc("B", 2017, 10, [concepts |-> <<Item("concept", L_Splatting)>>,
                        methods  |-> <<Item("method", L_Splatting)>>])

\* An extraction whose relationships start at the paper's own title, which
\* is also the label of one of its concepts
Doc_TitleRel ==
    Doc("I", 2016, 11,
        [concepts |-> <<Item("concept", <<"I">>)>>,
         datasets |-> <<Item("dataset", L_DatasetX)>>,
         metrics  |-> <<Item("metric", L_PSNR)>>,
         relationships |-> <<Rel(<<"I">>, L_Datasetx, "USES_DATASET", 90),
                             Rel(<<"I">>, L_PSNR, "EVALUATES_WITH", 90)>>])

DocPool ==
    {Doc_Splat, Doc_Fast, Doc_Rels, Doc_PSNR, Doc_psnr, Doc_High, Doc_Low,
     Doc_NoExtraction, Doc_EmptyFile, Doc_EmptyDict, Doc_Twice, Doc_Task,
     Doc_SameLabel, Doc_TitleRel}

\* What the relationship oracle may answer for a pair: a JSON list, or a
\* failed call.
Answer(json) == [ok |-> TRUE, json |-> json]

Answer_None == Answer(<<>>)
Answer_ImprovesOn ==
    Answer(<<[relationship_type |-> "IMPROVES_ON", confidence |-> 80]>>)
Answer_NoType == Answer(<<[confidence |-> 80]>>)
Answer_Two ==
    Answer(<<[relationship_type |-> "COMPARES_TO"],
             [relationship_type |-> "EXTENDS", confidence |-> 90]>>)
Answer_High ==
    Answer(<<[relationship_type |-> "REFINES_CONCEPT", confidence |-> 80],
             [relationship_type |-> "SIMILAR_TO", confidence |-> 170]>>)
Answer_Low ==
    Answer(<<[relationship_type |-> "SIMILAR_TO", confidence |-> 0 - 20]>>)
\* An answer that lists the same relationship type twice
Answer_Twice ==
    Answer(<<[relationship_type |-> "COMPARES_TO", confidence |-> 70],
             [relationship_type |-> "COMPARES_TO", confidence |-> 70]>>)
Answer_Failed == [ok |-> FALSE, json |-> <<>>]

Answers ==
    {Answer_None, Answer_ImprovesOn, Answer_NoType, Answer_Two, Answer_High,
     Answer_Low, Answer_Twice, Answer_Failed}

\* The store calls of this development succeed: no step fails.
NoFailure == {0}

-----------------------------------------------------------------------------
(* Spec: the ingest command of main.py, documents ingested one after the    *)
(* other                                                                    *)

MaxDocs == 2

Init ==
    /\ normIn = <<>>
    /\ normOuts = <<>>
    /\ db = EmptyDb
    /\ runs = <<>>
    /\ ingested = <<>>
    /\ link = NoLink

\* main.py, lines 135-144: one ingest_paper call of the batch; fail_points:
\* the steps at which a store call may fail.
IngestCall(docs, fail_points) ==
    /\ link.pc = "idle"
    /\ Len(ingested) < MaxDocs
    /\ \E doc \in docs, fail_at \in fail_points :
         \E out \in IngestOutcomes(db, BeginIngest(doc), fail_at) :
            /\ db' = out.db
            /\ runs' = <<out.run>>
            /\ ingested' = Append(ingested, [doc |-> doc.name, ok |-> out.run.pc = "done"])
    /\ UNCHANGED <<normIn, normOuts, link>>

IngestPaper(docs) == IngestCall(docs, NoFailure)

\* main.py, lines 143-144: results.append(result) when ingest_paper returned
IsResult(entry) == entry.ok
Results == SelectSeq(ingested, IsResult)

\* main.py, lines 148-151: if link_relationships and len(results) > 1
LinkBatch ==
    /\ Len(Results) > 1
    /\ LinkBegin({"pruned_2"}, {10})

Next ==
    \/ IngestPaper(DocPool)
    \/ LinkBatch
    \/ LinkNextSource
    \/ LinkVisit(Answers)
    \/ LinkReturn

Spec == Init /\ [][Next]_vars

-----------------------------------------------------------------------------
(* SpecFail: the documents of a batch ingested one after the other while    *)
(* one store call of each ingest_paper may fail                             *)

FailDocs == {Doc_Splat, Doc_Rels, Doc_NoExtraction}

\* No failure, or a failure of the store call of one step of ingest_paper
FailPoints == 0..13

InitFail == Init

NextFail == IngestCall(FailDocs, FailPoints)

SpecFail == InitFail /\ [][NextFail]_vars

-----------------------------------------------------------------------------
(* SpecLink: one linking pass, of any strategy, over a stored corpus        *)

\* The state after ingest_paper on each document of a batch, in sequence
RECURSIVE IngestBatch(_, _)
IngestBatch(st, docs) ==
    IF docs = <<>> THEN {st}
    ELSE UNION {IngestBatch([db |-> out.db,
                             runs |-> <<out.run>>,
                             ingested |-> Append(st.ingested,
                                            [doc |-> Head(docs).name,
                                             ok |-> out.run.pc = "done"])],
                            Tail(docs)) :
                  out \in IngestOutcomes(st.db, BeginIngest(Head(docs)), 0)}

\* The corpora: papers A, B, C where only {A, B} share a dataset and only
\* {B, C} a method, the same with a paper that shares nothing, three papers
\* that share a dataset with the third far from the first, two papers of
\* one year that share their nodes, two papers of one year without entities,
\* the scenario's two papers, one paper, none.
LinkBatches ==
    {<<Doc_Splat, Doc_Fast, Doc_PSNR>>,
     <<Doc_Splat, Doc_Fast, Doc_Twice>>,
     <<Doc_Splat, Doc_Fast, Doc_PSNR, Doc_psnr>>,
     <<Doc_Splat, Doc_Splat>>,
     <<Doc_High, Doc_Low>>,
     <<Doc_Splat, Doc_Fast>>,
     <<Doc_Splat>>,
     <<>>}

InitLink ==
    /\ normIn = <<>>
    /\ normOuts = <<>>
    /\ link = NoLink
    /\ \E batch \in LinkBatches :
         \E st \in IngestBatch([db |-> EmptyDb, runs |-> <<>>, ingested |-> <<>>], batch) :
            /\ db = st.db
            /\ runs = st.runs
            /\ ingested = st.ingested

NextLink ==
    \/ LinkBegin({"unpruned", "pruned", "pruned_2"}, {1, 2})
    \/ LinkNextSource
    \/ LinkVisit(Answers)
    \/ LinkReturn

SpecLink == InitLink /\ [][NextLink]_vars

-----------------------------------------------------------------------------
(* SpecConc: two ingest_paper calls that run at the same time on one store; *)
(* every repository call commits on its own (db/client.py)                  *)

ConcDocs == {Doc_Splat, Doc_Fast, Doc_PSNR}

InitConc ==
    /\ normIn = <<>>
    /\ normOuts = <<>>
    /\ link = NoLink
    /\ db = EmptyDb
    /\ \E doc1, doc2 \in ConcDocs :
          /\ runs = <<BeginIngest(doc1), BeginIngest(doc2)>>
          /\ ingested = <<[doc |-> doc1.name, ok |-> FALSE],
                          [doc |-> doc2.name, ok |-> FALSE]>>

\* One run takes its next step.
RunStep(n) ==
    /\ runs[n].pc \notin {"done", "failed"}
    /\ \E row \in RowChoices(db, runs[n]) :
          LET s == IngestStep(db, runs[n], row, TRUE)
          IN  /\ db' = s.db
              /\ runs' = [runs EXCEPT ![n] = s.run]
              /\ ingested' = [ingested EXCEPT ![n].ok = s.run.pc = "done"]
    /\ UNCHANGED <<normIn, normOuts, link>>

NextConc == \E n \in {1, 2} : RunStep(n)

SpecConc == InitConc /\ [][NextConc]_vars

-----------------------------------------------------------------------------
(* SpecNorm: _normalize_label applied to a bounded label, then to its own   *)
(* result                                                                   *)

MaxLen == 3

NormAlphabet == {"a", "A", "3", " ", "\t", "SOH", "APOSN"}

RECURSIVE StringsUpTo(_)
StringsUpTo(n) ==
    IF n = 0 THEN {<<>>}
    ELSE LET shorter == StringsUpTo(n - 1)
         IN  shorter \cup {Append(s, c) : s \in {t \in shorter : Len(t) = n - 1},
                                          c \in NormAlphabet}

Label_PSNR == <<"P","S","N","R">>

Label_3dGaussianSplattingPadded ==
    <<" "," ","3","d"," ","g","a","u","s","s","i","a","n"," ",
      "s","p","l","a","t","t","i","n","g"," "," ">>

Label_3dGaussianSplatting ==
    <<"3","d"," ","G","a","u","s","s","i","a","n"," ",
      "S","p","l","a","t","t","i","n","g">>

Label_neuralRadianceFields ==
    <<"n","e","u","r","a","l"," ","r","a","d","i","a","n","c","e"," ",
      "f","i","e","l","d","s">>

Label_NeuralRadianceFields ==
    <<"N","e","u","r","a","l"," ","R","a","d","i","a","n","c","e"," ",
      "F","i","e","l","d","s">>

ExampleLabels ==
    {Label_PSNR, Label_3dGaussianSplattingPadded, Label_neuralRadianceFields}

InitNorm ==
    /\ normIn \in StringsUpTo(MaxLen) \cup ExampleLabels
    /\ normOuts = <<>>
    /\ db = EmptyDb
    /\ runs = <<>>
    /\ ingested = <<>>
    /\ link = NoLink

\* agent._normalize_label(x), then agent._normalize_label of that result.
NormalizeLabel ==
    /\ Len(normOuts) < 2
    /\ normOuts' = Append(normOuts,
                          normalize_label(IF normOuts = <<>> THEN normIn
                                          ELSE normOuts[Len(normOuts)]))
    /\ UNCHANGED <<normIn, db, runs, ingested, link>>

NextNorm == NormalizeLabel

SpecNorm == InitNorm /\ [][NextNorm]_vars

-----------------------------------------------------------------------------
(* SpecEnt: _normalize_entities applied to a bounded batch of entities      *)

MaxBatch == 3

Label_3DGaussianSplatting ==
    <<"3","D"," ","G","a","u","s","s","i","a","n"," ",
      "S","p","l","a","t","t","i","n","g">>

Label_3dgaussiansplatting ==
    <<"3","d"," ","g","a","u","s","s","i","a","n"," ",
      "s","p","l","a","t","t","i","n","g">>

\* The labels of a batch: the three of the deduplication test, short ones in
\* both letter cases, the empty one, a blank one, one of a control character.
EntLabels ==
    {Label_3DGaussianSplatting, Label_3dgaussiansplatting, Label_NeuralRadianceFields,
     <<"a", "b">>, <<"A", "B">>, <<"a">>, <<>>, <<" ">>, <<"SOH">>}

\* Entities of one group with descriptions and properties: two that share
\* the key q, one with properties only, one whose description is a control
\* character
Item_Described ==
    [entity_type |-> "concept", label |-> <<"a", "b">>, description |-> <<"x">>,
     properties |-> [p |-> <<"1">>, q |-> <<"1">>]]
Item_DescribedAgain ==
    [entity_type |-> "concept", label |-> <<"A", "B">>, description |-> <<"y">>,
     properties |-> [q |-> <<"2">>, r |-> <<"SOH", "2">>]]
Item_Undescribed ==
    [entity_type |-> "concept", label |-> <<"a", "b">>, properties |-> [p |-> <<"0">>]]
Item_ControlDescription ==
    [entity_type |-> "concept", label |-> <<"a", "b">>, description |-> <<"SOH">>]

\* The entities of a batch; the oracle may file a method among the concepts.
EntItems ==
    {Item("concept", label) : label \in EntLabels} \cup {Item("method", <<"a", "b">>)}
      \cup {Item_Described, Item_DescribedAgain, Item_Undescribed, Item_ControlDescription}

RECURSIVE BatchesUpTo(_)
BatchesUpTo(n) ==
    IF n = 0 THEN {<<>>}
    ELSE LET shorter == BatchesUpTo(n - 1)
         IN  shorter \cup {Append(b, e) : b \in {x \in shorter : Len(x) = n - 1},
                                          e \in EntItems}

InitEnt ==
    /\ normIn \in BatchesUpTo(MaxBatch)
    /\ normOuts = <<>>
    /\ db = EmptyDb
    /\ runs = <<>>
    /\ ingested = <<>>
    /\ link = NoLink

\* agent._normalize_entities(entities, entity_type)
NormalizeEntities ==
    /\ normOuts = <<>>
    /\ \E entity_type \in {"concept", "dataset"} :
          normOuts' = <<[entity_type |-> entity_type,
                         entities |-> normalize_entities(normIn, entity_type)]>>
    /\ UNCHANGED <<normIn, db, runs, ingested, link>>

NextEnt == NormalizeEntities

SpecEnt == InitEnt /\ [][NextEnt]_vars

-----------------------------------------------------------------------------
(* SpecRel: _validate_relationships applied to a list of relationship       *)
(* objects                                                                  *)

MaxRels == 3

\* Relationship objects: complete ones, ones with an empty field, ones that
\* lack an attribute, confidences inside and outside [0, 1]
Rel_Complete     == Rel(<<"a">>, <<"b">>, "USES_DATASET", 80)
Rel_Blank        == Rel(<<" ">>, <<"b">>, "USES_DATASET", 100)
Rel_High         == Rel(<<"b">>, <<"a">>, "EXTENDS", 170)
Rel_Low          == Rel(<<"a">>, <<"a">>, "EXTENDS", 0 - 20)
Rel_EmptyFrom    == Rel(<<>>, <<"b">>, "INTRODUCES", 50)
Rel_EmptyTo      == Rel(<<"a">>, <<>>, "INTRODUCES", 50)
Rel_EmptyType    == Rel(<<"a">>, <<"b">>, "", 50)
Rel_NoConfidence ==
    [from_entity_label |-> <<"a">>, to_entity_label |-> <<"b">>,
     relationship_type |-> "INTRODUCES"]
Rel_NoFrom ==
    [to_entity_label |-> <<"b">>, relationship_type |-> "INTRODUCES", confidence |-> 50]
Rel_NoTo ==
    [from_entity_label |-> <<"a">>, relationship_type |-> "INTRODUCES"]
Rel_NoType ==
    [from_entity_label |-> <<"a">>, to_entity_label |-> <<"b">>, confidence |-> 170]

RelPool ==
    {Rel_Complete, Rel_Blank, Rel_High, Rel_Low, Rel_EmptyFrom, Rel_EmptyTo,
     Rel_EmptyType, Rel_NoConfidence, Rel_NoFrom, Rel_NoTo, Rel_NoType}

RECURSIVE RelListsUpTo(_)
RelListsUpTo(n) ==
    IF n = 0 THEN {<<>>}
    ELSE LET shorter == RelListsUpTo(n - 1)
         IN  shorter \cup {Append(l, rel) : l \in shorter, rel \in RelPool}

InitRel ==
    /\ normIn \in RelListsUpTo(MaxRels)
    /\ normOuts = <<>>
    /\ db = EmptyDb
    /\ runs = <<>>
    /\ ingested = <<>>
    /\ link = NoLink

ValidateRelationships ==
    /\ normOuts = <<>>
    /\ normOuts' = <<validate_relationships(normIn)>>
    /\ UNCHANGED <<normIn, db, runs, ingested, link>>

NextRel == ValidateRelationships

SpecRel == InitRel /\ [][NextRel]_vars

-----------------------------------------------------------------------------
(* Claims about the ingest command (Spec)                                   *)

C1_EntityTypes == {"concept", "method", "dataset", "metric", "author", "task"}

\* A label after case-folding and whitespace normalization
C1_Folded(label) == lower(join(split(label)))

\* C1: after any sequence of sequential ingest_paper calls no two stored
\* nodes of the same entity type have labels that are equal after
\* case-folding and whitespace normalization.
C1_UniqueFoldedLabel ==
    \A i, j \in 1..Len(db.nodes) :
        /\ db.nodes[i].node_type \in C1_EntityTypes
        /\ db.nodes[i].node_type = db.nodes[j].node_type
        /\ C1_Folded(db.nodes[i].label) = C1_Folded(db.nodes[j].label)
        => i = j

\* The store holds an edge of this type and confidence.
C5_Stored(edge_type, confidence) ==
    \E e \in 1..Len(db.edges) :
        db.edges[e].edge_type = edge_type /\ db.edges[e].confidence = confidence

\* The store holds an edge between the two papers of this type and confidence.
C5_StoredBetween(call, edge_type, confidence) ==
    \E e \in 1..Len(db.edges) :
        /\ {db.edges[e].from_node_id, db.edges[e].to_node_id} = {call.paper1, call.paper2}
        /\ db.edges[e].edge_type = edge_type
        /\ db.edges[e].confidence = confidence

\* C5: a relationship emitted by either oracle with confidence 1.7 results in
\* a stored edge with confidence 1.0, and one with confidence -0.2 in a stored
\* edge with confidence 0.0.  For the extraction oracle: the document whose
\* only relationship, between two of its own entities, carries 1.7 (-0.2);
\* for the relationship oracle: every answer of the pass.
C5_ConfidenceClamped ==
    /\ (runs # <<>> /\ runs[1].doc = "H") => C5_Stored("USES_DATASET", 100)
    /\ (runs # <<>> /\ runs[1].doc = "L") => C5_Stored("USES_DATASET", 0)
    /\ link.pc # "idle" =>
         \A c \in 1..Len(link.calls) :
           LET call == link.calls[c]
           IN  \A i \in 1..Len(call.answer.json) :
                 LET item == call.answer.json[i]
                     edge_type == Get(item, "relationship_type", "SIMILAR_TO")
                 IN  /\ Get(item, "confidence", 50) > 100
                          => C5_StoredBetween(call, edge_type, 100)
                     /\ Get(item, "confidence", 50) < 0
                          => C5_StoredBetween(call, edge_type, 0)

\* The relationships of the run whose two labels are labels of entities of
\* the same document
C6_Resolves(r, rel) ==
    /\ \E i \in 1..Len(r.all_entities) : r.all_entities[i].label = rel.from_entity_label
    /\ \E i \in 1..Len(r.all_entities) : r.all_entities[i].label = rel.to_entity_label

C6_Resolved(r) ==
    LET RECURSIVE Keep(_)
        Keep(rels) ==
            IF rels = <<>> THEN <<>>
            ELSE IF C6_Resolves(r, Head(rels)) THEN <<Head(rels)>> \o Keep(Tail(rels))
            ELSE Keep(Tail(rels))
    IN  Keep(r.relationships)

C6_ExpectedEdges(r) ==
    LET kept == C6_Resolved(r)
    IN  [i \in 1..Len(kept) |->
           [from_node_id |-> r.entity_nodes[kept[i].from_entity_label],
            to_node_id   |-> r.entity_nodes[kept[i].to_entity_label],
            edge_type    |-> kept[i].relationship_type,
            confidence   |-> kept[i].confidence]]

\* C6: an ingest_paper call whose document could be read returns without
\* error and, after the edges from the paper to its entities, writes exactly one edge for each relationship
\* whose two labels resolve, in the order of the list: a relationship with an
\* unresolvable label is dropped, the others of the list are materialized.
C6_UnresolvedDropped ==
    [][(ingested' # ingested /\ runs'[1].error # "ingest_from_file") =>
          LET r == runs'[1]
              n == Len(r.all_entities)
          IN  /\ r.pc = "done"
              /\ db'.edges = db.edges \o r.edges_created
              /\ SubSeq(r.edges_created, n + 1, Len(r.edges_created))
                   = C6_ExpectedEdges(r)]_vars

\* The document with four relationships, the second and the fourth
\* unresolvable, has been ingested: the first and the third are stored.
C6_Witness ==
    /\ runs # <<>>
    /\ runs[1].doc = "R"
    /\ Len(runs[1].relationships) = 4
    /\ Len(runs[1].edges_created) = Len(runs[1].all_entities) + 2
    /\ \E e \in 1..Len(db.edges) : db.edges[e].edge_type = "USED_BY"
    /\ \A e \in 1..Len(db.edges) : db.edges[e].edge_type # "EVALUATES_ON"

\* The two documents of the scenario have been ingested, in this order, into
\* the empty store.
C7_Scenario ==
    /\ Len(ingested) = 2
    /\ ingested[1].doc = "S"
    /\ ingested[2].doc = "F"

C7_Nodes(node_type) == {i \in 1..Len(db.nodes) : db.nodes[i].node_type = node_type}

\* C7: after the two documents of the scenario the store holds exactly one
\* node of type dataset, both paper nodes have an edge to it, and a Strategy A
\* pass that has ended has passed exactly one pair to the oracle, the pair of
\* the two papers.
C7_EndToEnd ==
    C7_Scenario =>
        /\ Cardinality(C7_Nodes("dataset")) = 1
        /\ Cardinality(C7_Nodes("paper")) = 2
        /\ \A p \in C7_Nodes("paper") : \A n \in C7_Nodes("dataset") :
              \E e \in 1..Len(db.edges) :
                 db.edges[e].from_node_id = p /\ db.edges[e].to_node_id = n
        /\ link.pc \in {"returned", "aborted"} =>
              /\ Len(link.calls) = 1
              /\ {link.calls[1].paper1, link.calls[1].paper2} = C7_Nodes("paper")

C7_Witness ==
    /\ C7_Scenario
    /\ link.pc = "returned"
    /\ link.strategy = "pruned_2"
    /\ Len(link.calls) = 1
    /\ db.nodes[CHOOSE n \in C7_Nodes("dataset") : TRUE].label = L_Datasetx

-----------------------------------------------------------------------------
(* Claims about the linking passes (SpecLink)                               *)

\* The stored papers
C2_Papers == {p.node_id : p \in db.papers}

\* Two papers share a dataset, method or concept neighbour: a node of that
\* type that is the target of an edge from each of them.
C2_Share(p, q) ==
    \E n \in 1..Len(db.nodes) :
        /\ db.nodes[n].node_type \in {"dataset", "method", "concept"}
        /\ \E e \in 1..Len(db.edges) :
              db.edges[e].from_node_id = p /\ db.edges[e].to_node_id = n
        /\ \E e \in 1..Len(db.edges) :
              db.edges[e].from_node_id = q /\ db.edges[e].to_node_id = n

\* The unordered pairs the pass has passed to the oracle
C2_Evaluated == {{link.calls[c].paper1, link.calls[c].paper2} : c \in 1..Len(link.calls)}

\* C2: a Strategy A pass that has ended has passed an unordered pair of
\* distinct stored papers to the relationship oracle if and only if the two
\* share at least one dataset, method or concept neighbour; for the corpus
\* where only {A, B} share a dataset and only {B, C} a method these are
\* exactly {A, B} and {B, C}.
C2_StrategyAPairs ==
    (link.pc \in {"returned", "aborted"} /\ link.strategy = "pruned_2") =>
        C2_Evaluated = {pair \in SUBSET C2_Papers :
                          \E p, q \in pair : p # q /\ pair = {p, q} /\ C2_Share(p, q)}

\* C3: within a pass of any strategy the oracle is invoked at most once per
\* unordered pair of papers, whichever side the pair is met from, and never
\* for a paper paired with itself.
C3_OncePerPair ==
    link.pc # "idle" =>
        \A c \in 1..Len(link.calls) :
            /\ link.calls[c].paper1 # link.calls[c].paper2
            /\ \A x \in 1..Len(link.calls) :
                  {link.calls[x].paper1, link.calls[x].paper2}
                    = {link.calls[c].paper1, link.calls[c].paper2} => x = c

\* A pruned pass meets, from its second side, a pair it has already passed to
\* the oracle.
C3_Witness ==
    /\ link.pc = "running"
    /\ link.strategy \in {"pruned", "pruned_2"}
    /\ link.cands # <<>>
    /\ PairKey(link.papers[link.src], Head(link.cands)) \in link.seen_pairs
    /\ \E c \in 1..Len(link.calls) :
          {link.calls[c].paper1, link.calls[c].paper2}
            = {link.papers[link.src], Head(link.cands)}

\* The edge of a call is in the store: at once in the pruned passes, when the
\* pass returns in the unpruned one.
C4_Created(edge) ==
    (link.strategy # "unpruned" \/ link.pc = "returned") =>
        \E e \in 1..Len(db.edges) : db.edges[e] = edge

\* C4: for an oracle result evaluated on the ordered input (paper1, paper2)
\* the edge created runs paper2 -> paper1 when its type is IMPROVES_ON, EXTENDS
\* or REFINES_CONCEPT, and paper1 -> paper2 for every other type; a missing
\* type is stored as SIMILAR_TO.
C4_Direction ==
    link.pc # "idle" =>
        \A c \in 1..Len(link.calls) :
            LET call == link.calls[c]
            IN  \A i \in 1..Len(call.relationships) :
                  LET item == call.answer.json[i]
                      edge == call.relationships[i]
                  IN  /\ C4_Created(edge)
                      /\ IF "relationship_type" \notin DOMAIN item
                         THEN /\ edge.edge_type = "SIMILAR_TO"
                              /\ edge.from_node_id = call.paper1
                              /\ edge.to_node_id = call.paper2
                         ELSE /\ edge.edge_type = item.relationship_type
                              /\ IF item.relationship_type
                                      \in {"IMPROVES_ON", "EXTENDS", "REFINES_CONCEPT"}
                                 THEN /\ edge.from_node_id = call.paper2
                                      /\ edge.to_node_id = call.paper1
                                 ELSE /\ edge.from_node_id = call.paper1
                                      /\ edge.to_node_id = call.paper2

\* A pass has returned after an answer with a COMPARES_TO and an EXTENDS
\* result, both stored, and an answer without a type.
C4_Witness ==
    /\ link.pc = "returned"
    /\ \E c \in 1..Len(link.calls) :
          /\ link.calls[c].answer = Answer_Two
          /\ Len(link.calls[c].relationships) = 2
          /\ \E e \in 1..Len(db.edges) :
                /\ db.edges[e].edge_type = "EXTENDS"
                /\ db.edges[e].from_node_id = link.calls[c].paper2
    /\ \E c \in 1..Len(link.calls) :
          /\ link.calls[c].answer = Answer_NoType
          /\ Len(link.calls[c].relationships) = 1

-----------------------------------------------------------------------------
(* Claims about concurrent ingestion (SpecConc)                             *)

\* The run has just inserted a node for its current entity, after a lookup
\* that found none.
C8_Inserted(r) == r.pc = "introduces" /\ r.existing = 0

\* C8: find-or-create is a read followed by a write keyed on a fresh id: when
\* two concurrent runs both resolve the same not-yet-created (type, label),
\* each inserts its own node, and the store holds two nodes with the same
\* type and label.
C8_BothInsert ==
    (/\ C8_Inserted(runs[1])
     /\ C8_Inserted(runs[2])
     /\ runs[1].all_entities[runs[1].i] = runs[2].all_entities[runs[2].i]) =>
        /\ runs[1].entity_node_id # runs[2].entity_node_id
        /\ \A n \in {1, 2} :
              /\ db.nodes[runs[n].entity_node_id].label
                   = runs[n].all_entities[runs[n].i].label
              /\ db.nodes[runs[n].entity_node_id].node_type
                   = runs[n].all_entities[runs[n].i].entity_type

\* Both runs have inserted a dataset node "Datasetx".
C8_Witness ==
    /\ C8_Inserted(runs[1])
    /\ C8_Inserted(runs[2])
    /\ runs[1].doc # runs[2].doc
    /\ Cardinality({n \in 1..Len(db.nodes) :
                      db.nodes[n].node_type = "dataset" /\ db.nodes[n].label = L_Datasetx}) = 2

-----------------------------------------------------------------------------
(* Claims about _normalize_label (SpecNorm)                                 *)

\* C9: label normalisation is idempotent: for every string x,
\* _normalize_label(_normalize_label(x)) = _normalize_label(x).
C9_NormalizeIdempotent ==
    Len(normOuts) = 2 => normOuts[2] = normOuts[1]

\* The label the claim C10 describes, written from the claim's words: the
\* positions where a whitespace-delimited token of s starts.
C10_TokenStarts(s) ==
    {i \in 1..Len(s) :
        /\ s[i] \notin WhitespaceChars
        /\ (i = 1 \/ s[i - 1] \in WhitespaceChars)}

C10_TokenEnd(s, i) ==
    CHOOSE j \in i..Len(s) :
        /\ \A k \in i..j : s[k] \notin WhitespaceChars
        /\ (j = Len(s) \/ s[j + 1] \in WhitespaceChars)

C10_Token(s, k) ==
    LET start == CHOOSE i \in C10_TokenStarts(s) :
                     Cardinality({j \in C10_TokenStarts(s) : j <= i}) = k
    IN  SubSeq(s, start, C10_TokenEnd(s, start))

\* "Entirely uppercase": the token has an uppercase letter and no lowercase one.
C10_EntirelyUpper(tok) ==
    /\ \E i \in 1..Len(tok) : IsUpperChar(tok[i])
    /\ ~\E i \in 1..Len(tok) : IsLowerChar(tok[i])

C10_Word(tok) ==
    IF C10_EntirelyUpper(tok) /\ Len(tok) > 1 THEN tok
    ELSE ToUpper(tok[1]) \o [i \in 1..(Len(tok) - 1) |-> ToLower(tok[i + 1])]

C10_Describes(x, out) ==
    LET s == SelectSeq(x, LAMBDA c : c \notin ControlChars)
        n == Cardinality(C10_TokenStarts(s))
    IN  /\ Cardinality(C10_TokenStarts(out)) = n
        /\ \A k \in 1..n : C10_Token(out, k) = C10_Word(C10_Token(s, k))
        \* joined by single spaces, no leading or trailing space
        /\ \A i \in 1..Len(out) :
               out[i] \in WhitespaceChars =>
                   /\ out[i] = " "
                   /\ 1 < i /\ i < Len(out)
                   /\ out[i - 1] \notin WhitespaceChars
                   /\ out[i + 1] \notin WhitespaceChars

-----------------------------------------------------------------------------
(* Claims about _normalize_entities (SpecEnt)                               *)

\* lowercase(normalized label)
C11_Key(label) == lower(normalize_label(label))

\* The positions of the batch at which a key occurs for the first time among
\* the positions that count, in ascending order
C11_FirstOccurrences(batch, counts) ==
    LET first == {i \in counts :
                    \A j \in counts : j < i => C11_Key(batch[j].label) # C11_Key(batch[i].label)}
        RECURSIVE Ascending(_)
        Ascending(S) ==
            IF S = {} THEN <<>>
            ELSE LET m == CHOOSE x \in S : \A y \in S : x <= y
                 IN  <<m>> \o Ascending(S \ {m})
    IN  Ascending(first)

\* The output holds one entity per key, in order of first occurrence, each of
\* the requested type.
C11_OnePerKey(batch, counts, out) ==
    LET firsts == C11_FirstOccurrences(batch, counts)
    IN  /\ Len(out.entities) = Len(firsts)
        /\ \A k \in 1..Len(firsts) :
              /\ lower(out.entities[k].label) = C11_Key(batch[firsts[k]].label)
              /\ out.entities[k].entity_type = out.entity_type

C11_TestBatch ==
    /\ Len(normIn) = 3
    /\ normIn[1].label = Label_3DGaussianSplatting
    /\ normIn[2].label = Label_3dgaussiansplatting
    /\ normIn[3].label = Label_NeuralRadianceFields

\* C11 as stated: _normalize_entities returns exactly one entity per distinct
\* lowercase(normalized label) among the input entities with a non-empty
\* label, in order of first occurrence, each carrying the requested type; the
\* batch of the test yields exactly 2 entities.
C11_OnePerNonEmptyLabel ==
    normOuts # <<>> =>
        /\ C11_OnePerKey(normIn, {i \in 1..Len(normIn) : normIn[i].label # <<>>}, normOuts[1])
        /\ C11_TestBatch => Len(normOuts[1].entities) = 2

\* C11 amended: the same, among the input entities whose label is neither
\* empty nor made of whitespace only.
C11_OnePerNonBlankLabel ==
    normOuts # <<>> =>
        /\ C11_OnePerKey(normIn, {i \in 1..Len(normIn) : strip(normIn[i].label) # <<>>},
                         normOuts[1])
        /\ C11_TestBatch => Len(normOuts[1].entities) = 2

C11_Witness ==
    /\ C11_TestBatch
    /\ normOuts # <<>>
    /\ Len(normOuts[1].entities) = 2
    /\ normOuts[1].entities[2].label = Label_NeuralRadianceFields

\* C12: the canonical label of a group of duplicates depends only on the
\* case-insensitive label, not on the variant that comes first: whichever
\* member of the group is normalized gives the label of the output entity;
\* the batch whose first entity is "3D Gaussian Splatting" and whose second
\* is "3d gaussian splatting" yields a first entity "3d Gaussian Splatting".
C12_CanonicalIndependentOfOrder ==
    normOuts # <<>> =>
        /\ \A k \in 1..Len(normOuts[1].entities) :
              \A i \in 1..Len(normIn) :
                 (/\ strip(normIn[i].label) # <<>>
                  /\ C11_Key(normIn[i].label) = lower(normOuts[1].entities[k].label))
                 => normalize_label(normIn[i].label) = normOuts[1].entities[k].label
        /\ (/\ Len(normIn) >= 2
            /\ normIn[1].label = Label_3DGaussianSplatting
            /\ normIn[2].label = Label_3dgaussiansplatting)
           => normOuts[1].entities[1].label = Label_3dGaussianSplatting


\* The positions of the batch that belong to the group of the output entity
C22_Group(out_label) ==
    {i \in 1..Len(normIn) :
        /\ strip(normIn[i].label) # <<>>
        /\ C11_Key(normIn[i].label) = lower(out_label)}

C22_Min(S) == CHOOSE x \in S : \A y \in S : x <= y
C22_Max(S) == CHOOSE x \in S : \A y \in S : x >= y

\* The description the group leaves: the canonical's own unless it is empty,
\* else the first non-empty one of a later member
C22_Description(group) ==
    LET first == C22_Min(group)
        own == sanitize_string(Description(normIn[first]))
        later == {i \in group \ {first} : Description(normIn[i]) # <<>>}
    IN  IF own # <<>> THEN own
        ELSE IF later = {} THEN own
        ELSE Description(normIn[C22_Min(later)])

\* The value of a key: the one the last member that has the key gave
C22_Property(group, key) ==
    LET first == C22_Min(group)
        last == C22_Max({i \in group : key \in DOMAIN Properties(normIn[i])})
    IN  IF last = first THEN sanitize_string(Properties(normIn[first])[key])
        ELSE Properties(normIn[last])[key]

\* C22: the description of the canonical entity is replaced by a later
\* duplicate's only if its own is empty, and the properties of the duplicates
\* are merged into it so that on a shared key the later value wins, the keys
\* only the canonical has being kept.
C22_MergeIntoCanonical ==
    normOuts # <<>> =>
        \A k \in 1..Len(normOuts[1].entities) :
            LET out == normOuts[1].entities[k]
                group == C22_Group(out.label)
            IN  /\ out.description = C22_Description(group)
                /\ DOMAIN out.properties =
                      UNION {DOMAIN Properties(normIn[i]) : i \in group}
                /\ \A key \in DOMAIN out.properties :
                      out.properties[key] = C22_Property(group, key)

\* The batch of a described entity, its described duplicate and an
\* undescribed one has been normalized: one entity, the first description,
\* p from the third, q and r from the second.
C22_Witness ==
    /\ normIn = <<Item_Described, Item_DescribedAgain, Item_Undescribed>>
    /\ normOuts # <<>>
    /\ Len(normOuts[1].entities) = 1
    /\ normOuts[1].entities[1].description = <<"x">>
    /\ normOuts[1].entities[1].properties =
          [p |-> <<"0">>, q |-> <<"2">>, r |-> <<"SOH", "2">>]

\* C27: every entity returned by _normalize_entities has a non-empty label:
\* an input whose label is empty, blank, or empty once normalization has
\* stripped its control characters is dropped.
C27_NoEmptyLabel ==
    normOuts # <<>> =>
        \A k \in 1..Len(normOuts[1].entities) : normOuts[1].entities[k].label # <<>>

-----------------------------------------------------------------------------
(* Claims about failures of the oracles                                     *)

\* C13: whatever the relationship oracle yields for a pair (a failure, a
\* timeout, no relationship), the linking pass is not aborted: a pass that
\* has started is running or has returned its edge count.
C13_PassNotAborted ==
    link.pc # "idle" => link.pc \in {"running", "returned"}

\* C14: when the fact-extraction oracle call fails, ingest_paper still
\* completes: it writes the paper node and its metadata record, no other node
\* and no edge, and reports zero entities and zero edges.
C14_EmptyExtractionOnFailure ==
    [][(ingested' # ingested /\ ingested'[Len(ingested')].doc = "N") =>
          LET r == runs'[1]
          IN  /\ r.pc = "done"
              /\ Len(db'.nodes) = Len(db.nodes) + 1
              /\ db'.nodes[r.paper_node_id].node_type = "paper"
              /\ \E p \in db'.papers : p.node_id = r.paper_node_id
              /\ db'.edges = db.edges
              /\ IngestResult(r).entities_created = 0
              /\ IngestResult(r).edges_created = 0]_vars

\* The document whose extraction call fails has been ingested after another.
C14_Witness ==
    /\ Len(ingested) = 2
    /\ ingested[2].doc = "N"
    /\ ingested[2].ok
    /\ runs[1].pc = "done"
    /\ db.nodes[runs[1].paper_node_id].label = <<"N">>
    /\ Len(db.nodes) > 1


-----------------------------------------------------------------------------
(* Claims about failures of the store (SpecFail)                            *)

\* C15: a store write failure while creating one entity node or one edge is
\* caught for that operation and does not abort the rest of the document: no
\* ingest_paper call is left through the write of an entity node or of an
\* edge.
C15_WriteFailureCaught ==
    \A n \in 1..Len(runs) : runs[n].error \notin {"create", "introduces", "rels"}

\* C24: edges_created in the result of ingest_paper equals the number of
\* edges the call has persisted in the store: an edge whose write failed is
\* not counted.
C24_CountsPersistedEdges ==
    [][(ingested' # ingested /\ runs'[1].pc = "done") =>
          IngestResult(runs'[1]).edges_created = Len(db'.edges) - Len(db.edges)]_vars

\* C18: in every state, also after a failed step of ingest_paper, each node
\* of type paper has exactly one PaperMetadata record keyed by its id, and
\* each PaperMetadata record refers to an existing paper node.
C18_PaperMetadataOneToOne ==
    /\ \A n \in 1..Len(db.nodes) :
          db.nodes[n].node_type = "paper" =>
              Cardinality({p \in db.papers : p.node_id = n}) = 1
    /\ \A p \in db.papers :
          /\ p.node_id \in 1..Len(db.nodes)
          /\ db.nodes[p.node_id].node_type = "paper"


-----------------------------------------------------------------------------
(* Claims about malformed documents (Spec)                                  *)

\* C16: in a batch run of the ingest command a document with empty text or an
\* unreadable file fails only its own ingestion: its ingest_paper call does
\* not return a result and writes nothing to the store, and the batch goes on
\* with the documents that remain.
C16_EmptyDocs == {Doc_EmptyFile.name, Doc_EmptyDict.name}

C16_MalformedFailsAlone ==
    [][(/\ Len(ingested') = Len(ingested) + 1
        /\ ingested'[Len(ingested')].doc \in C16_EmptyDocs)
       => /\ ~ingested'[Len(ingested')].ok
          /\ db' = db
          /\ link' = link]_vars


-----------------------------------------------------------------------------
(* Claims about repeated ingestion (Spec)                                   *)

\* The paper nodes of the store that carry the title of the document
C19_PaperNodes(name) ==
    {n \in 1..Len(db.nodes) :
        db.nodes[n].node_type = "paper" /\ db.nodes[n].label = sanitize_string(<<name>>)}

\* C19: once the same document (same title) has been ingested twice in
\* sequence, the store holds exactly one node of type paper with that label.
C19_OnePaperPerTitle ==
    \A a \in 1..Len(ingested) :
        (/\ a < Len(ingested)
         /\ ingested[a].ok /\ ingested[a + 1].ok
         /\ ingested[a].doc = ingested[a + 1].doc)
        => Cardinality(C19_PaperNodes(ingested[a].doc)) = 1


-----------------------------------------------------------------------------
(* Claims about duplicate edges (Spec)                                      *)

C17_Key(edge) == <<edge.from_node_id, edge.to_node_id, edge.edge_type>>

C17_NoDuplicate(edges) ==
    \A a, b \in 1..Len(edges) : a # b => C17_Key(edges[a]) # C17_Key(edges[b])

\* The edges the calls of the pass returned, call by call
RECURSIVE C17_Relationships(_)
C17_Relationships(calls) ==
    IF calls = <<>> THEN <<>>
    ELSE Head(calls).relationships \o C17_Relationships(Tail(calls))

\* The edges the linking pass has created so far: the unpruned pass writes
\* them when it returns, the pruned ones after each call.
C17_PassEdges ==
    IF link.pc = "idle" THEN <<>>
    ELSE IF link.strategy = "unpruned"
    THEN IF link.pc = "returned" THEN link.pending ELSE <<>>
    ELSE C17_Relationships(link.calls)

\* C17: no two of the edges created by one ingest_paper call, and no two of
\* the edges created by one linking pass, have the same (from, to, type),
\* whatever the oracles return.
C17_NoDuplicateEdges ==
    /\ \A n \in 1..Len(runs) : C17_NoDuplicate(runs[n].edges_created)
    /\ C17_NoDuplicate(C17_PassEdges)


-----------------------------------------------------------------------------
(* Claims about _validate_relationships (SpecRel)                           *)

C20_Present(rel, field, empty) == field \in DOMAIN rel /\ rel[field] # empty

\* The positions of the input whose three required fields are present and
\* non-empty, in input order
C20_Positions ==
    LET ok(i) == /\ C20_Present(normIn[i], "from_entity_label", <<>>)
                 /\ C20_Present(normIn[i], "to_entity_label", <<>>)
                 /\ C20_Present(normIn[i], "relationship_type", "")
        RECURSIVE from(_)
        from(i) == IF i > Len(normIn) THEN <<>>
                   ELSE IF ok(i) THEN <<i>> \o from(i + 1) ELSE from(i + 1)
    IN  from(1)

\* C20: _validate_relationships returns, in input order, exactly the
\* relationships whose from_entity_label, to_entity_label and
\* relationship_type are all present and non-empty, each with its confidence
\* in [0, 1], and 0.5 when the object had no confidence attribute.
C20_ValidatedRelationships ==
    normOuts # <<>> =>
        LET out == normOuts[1]
            pos == C20_Positions
        IN  /\ Len(out) = Len(pos)
            /\ \A k \in 1..Len(pos) :
                  LET rel == normIn[pos[k]]
                  IN  /\ out[k].from_entity_label = rel.from_entity_label
                      /\ out[k].to_entity_label = rel.to_entity_label
                      /\ out[k].relationship_type = rel.relationship_type
                      /\ out[k].confidence \in 0..100
                      /\ "confidence" \notin DOMAIN rel
                            => out[k].confidence = MissingConfidence

\* A list with a relationship without confidence, one with an empty source
\* label and one with confidence 1.7 has been validated: two are returned.
C20_Witness ==
    /\ normIn = <<Rel_NoConfidence, Rel_EmptyFrom, Rel_High>>
    /\ normOuts # <<>>
    /\ Len(normOuts[1]) = 2
    /\ normOuts[1][1].confidence = 50
    /\ normOuts[1][2].confidence = 100


-----------------------------------------------------------------------------
(* Claims about Strategy B (SpecLink)                                       *)

C21_Datasets(p) == get_paper_dataset_ids(db, p)

\* The K nearest papers of p: the other papers with an embedding that have
\* fewer than K papers strictly nearer to p; none when p has no embedding.
C21_TopK(p) ==
    IF db.nodes[p].embedding = 0 THEN {}
    ELSE LET others == {q \in C2_Papers \ {p} : db.nodes[q].embedding # 0}
         IN  {q \in others :
                Cardinality({r \in others : Distance(db, p, r) < Distance(db, p, q)})
                   < link.k}

\* The unordered pairs Strategy B has passed to the oracle
C21_Evaluated == {{link.calls[c].paper1, link.calls[c].paper2} : c \in 1..Len(link.calls)}

C21_Expected ==
    {pair \in SUBSET C2_Papers :
        \E p, q \in pair :
           /\ p # q /\ pair = {p, q}
           /\ C21_Datasets(p) \cap C21_Datasets(q) # {}
           /\ (q \in C21_TopK(p) \/ p \in C21_TopK(q))}

\* C21: Strategy B passes the unordered pair {P, Q} to the oracle if and only
\* if the two papers have a dataset in common and one is among the K nearest
\* papers of the other; a paper without a dataset takes part in no call.
C21_StrategyBPairs ==
    (link.pc # "idle" /\ link.strategy = "pruned") =>
        /\ C21_Evaluated \subseteq C21_Expected
        /\ link.pc = "returned" => C21_Evaluated = C21_Expected
        /\ \A c \in 1..Len(link.calls) :
              /\ C21_Datasets(link.calls[c].paper1) # {}
              /\ C21_Datasets(link.calls[c].paper2) # {}

\* Strategy B with K = 1 has returned on three papers that all share a
\* dataset: two pairs were evaluated, the pair of the two papers that are
\* not among each other's nearest was not.
C21_Witness ==
    /\ link.pc = "returned"
    /\ link.strategy = "pruned"
    /\ link.k = 1
    /\ Cardinality(C2_Papers) = 3
    /\ \A p, q \in C2_Papers : C21_Datasets(p) \cap C21_Datasets(q) # {}
    /\ Cardinality(C21_Evaluated) = 2


-----------------------------------------------------------------------------
(* Claims about store reconciliation (Spec)                                 *)

\* The entities of the call that the store already held when it began
C23_Found(r) ==
    {i \in 1..Len(r.all_entities) :
        find_node_by_label(db, r.all_entities[i].label,
                           r.all_entities[i].entity_type) # {}}

\* C23: when ingest_paper finds an existing node for an entity's (label,
\* type) it reuses that node and leaves it as it is stored: every node the
\* store held keeps its label, type and properties, and the call writes the
\* paper node and one node for each entity that was not found, none for an
\* entity that was found.
C23_ExistingNodeReused ==
    [][(ingested' # ingested /\ runs'[1].pc = "done") =>
          LET r == runs'[1]
              found == C23_Found(r)
          IN  /\ Len(db'.nodes) = Len(db.nodes) + 1 + Len(r.all_entities) - Cardinality(found)
              /\ \A n \in 1..Len(db.nodes) :
                    /\ db'.nodes[n].label = db.nodes[n].label
                    /\ db'.nodes[n].node_type = db.nodes[n].node_type
                    /\ db'.nodes[n].properties = db.nodes[n].properties
              /\ \A i \in found :
                    \A n \in (Len(db.nodes) + 1)..Len(db'.nodes) :
                       ~(/\ db'.nodes[n].label = r.all_entities[i].label
                         /\ db'.nodes[n].node_type = r.all_entities[i].entity_type)]_vars

\* The second paper of the scenario was ingested after the first: its dataset
\* carries a description, the dataset node stored by the first has none, and
\* the store holds one dataset node.
C23_Witness ==
    /\ Len(ingested) = 2
    /\ ingested[1].doc = "S" /\ ingested[2].doc = "F"
    /\ \E i \in 1..Len(runs[1].all_entities) :
          /\ runs[1].all_entities[i].entity_type = "dataset"
          /\ runs[1].all_entities[i].description = <<"d">>
    /\ Cardinality({n \in 1..Len(db.nodes) : db.nodes[n].node_type = "dataset"}) = 1
    /\ \A n \in 1..Len(db.nodes) :
          db.nodes[n].node_type = "dataset" => db.nodes[n].properties.description = <<>>


-----------------------------------------------------------------------------
(* Claims about what of an extraction is materialized (Spec)                *)

\* The paper of the last call introduces a node of this type and label
C25_Introduced(node_type, label) ==
    \E n \in 1..Len(db.nodes) :
        /\ db.nodes[n].node_type = node_type
        /\ db.nodes[n].label = label
        /\ \E e \in 1..Len(db.edges) :
              /\ db.edges[e].from_node_id = runs[1].paper_node_id
              /\ db.edges[e].to_node_id = n
              /\ db.edges[e].edge_type = "INTRODUCES"

\* C25: every entity type of the extraction is kept: once the document with
\* a concept and a task has been ingested, the store holds a node of type
\* task for the task, introduced by the paper, as it does for the concept.
C25_TasksKept ==
    (runs # <<>> /\ runs[1].doc = Doc_Task.name /\ runs[1].pc = "done") =>
        /\ C25_Introduced("concept", normalize_label(L_Splatting))
        /\ C25_Introduced("task", normalize_label(L_FastSplat))


\* C26: one malformed item of an oracle's output drops that item only.  Once
\* the document whose only relationship carries confidence 1.7 has been
\* ingested, its concept and its dataset are in the store, introduced by the
\* paper; and for a pair of papers whose answer holds a well-formed
\* relationship besides one with confidence 1.7, the well-formed one is
\* stored.
C26_OnlyMalformedItemDropped ==
    /\ (runs # <<>> /\ runs[1].doc = Doc_High.name /\ runs[1].pc = "done") =>
          /\ C25_Introduced("concept", normalize_label(L_Splatting))
          /\ C25_Introduced("dataset", normalize_label(L_DatasetX))
    /\ link.pc # "idle" =>
          \A c \in 1..Len(link.calls) :
             link.calls[c].answer = Answer_High =>
                C5_StoredBetween(link.calls[c], "REFINES_CONCEPT", 80)


\* C28: entities_created in the result of ingest_paper is the number of
\* entities validation retained, over all entity types of the document, also
\* when two of them, of different types, have the same label.
C28_CountsRetainedEntities ==
    \A n \in 1..Len(runs) :
        runs[n].pc = "done" =>
            IngestResult(runs[n]).entities_created = Len(runs[n].all_entities)


-----------------------------------------------------------------------------
(* Claims about the endpoints of edges                                      *)

C29_IsPaper(n) == db.nodes[n].node_type = "paper"

\* C29: no edge built from an intra-paper relationship of the extraction has
\* a paper node as an endpoint, also when the relationship starts at the
\* paper's title; every edge from a paper node to a dataset or metric node
\* has type INTRODUCES, and get_paper_datasets and get_paper_metrics return
\* nothing for every paper.
C29_NoPaperEndpoint ==
    /\ \A n \in 1..Len(runs) :
          runs[n].pc = "done" =>
             \A k \in (Len(runs[n].all_entities) + 1)..Len(runs[n].edges_created) :
                /\ ~C29_IsPaper(runs[n].edges_created[k].from_node_id)
                /\ ~C29_IsPaper(runs[n].edges_created[k].to_node_id)
    /\ \A e \in 1..Len(db.edges) :
          (/\ C29_IsPaper(db.edges[e].from_node_id)
           /\ db.nodes[db.edges[e].to_node_id].node_type \in {"dataset", "metric"})
          => db.edges[e].edge_type = "INTRODUCES"
    /\ \A p \in 1..Len(db.nodes) :
          C29_IsPaper(p) =>
             get_paper_datasets(db, p) = {} /\ get_paper_metrics(db, p) = {}

\* The document whose relationships start at its title has been ingested:
\* the edges of the two relationships leave the concept of that label.
C29_Witness ==
    /\ runs # <<>>
    /\ runs[1].doc = Doc_TitleRel.name
    /\ runs[1].pc = "done"
    /\ db.nodes[runs[1].paper_node_id].label = <<"I">>
    /\ \E e \in 1..Len(db.edges) :
          /\ db.edges[e].edge_type = "USES_DATASET"
          /\ db.nodes[db.edges[e].from_node_id].node_type = "concept"
          /\ db.nodes[db.edges[e].from_node_id].label = <<"I">>
    /\ \E e \in 1..Len(db.edges) :
          /\ db.edges[e].edge_type = "EVALUATES_WITH"
          /\ db.nodes[db.edges[e].to_node_id].node_type = "metric"


\* The edges the linking pass has written: the last edges_created of the store
C30_Written ==
    SubSeq(db.edges, Len(db.edges) - link.edges_created + 1, Len(db.edges))

\* C30: every edge a linking pass creates, whatever the strategy, joins two
\* distinct nodes of type paper that are in the store when it is written: no
\* self-loop, no dangling endpoint, no endpoint that is not a paper.
C30_PaperToPaper ==
    link.pc # "idle" =>
        \A e \in 1..Len(C30_Written) :
            LET edge == C30_Written[e]
            IN  /\ edge.from_node_id # edge.to_node_id
                /\ edge.from_node_id \in 1..Len(db.nodes)
                /\ edge.to_node_id \in 1..Len(db.nodes)
                /\ C29_IsPaper(edge.from_node_id)
                /\ C29_IsPaper(edge.to_node_id)
                /\ \E c \in 1..Len(link.calls) :
                      {edge.from_node_id, edge.to_node_id}
                         = {link.calls[c].paper1, link.calls[c].paper2}

\* The unpruned pass has returned after writing more than two edges, one of
\* them against the order of its pair.
C30_Witness ==
    /\ link.pc = "returned"
    /\ link.strategy = "unpruned"
    /\ link.edges_created > 2
    /\ \E e \in 1..Len(C30_Written) : C30_Written[e].edge_type = "IMPROVES_ON"
    /\ \E e \in 1..Len(C30_Written) : C30_Written[e].edge_type = "COMPARES_TO"

=============================================================================
